---- MODULE Spec2Model ----
(***************************************************************************)
(* Physics core of CDE90/physics-simulation: the Angle / PolarVector       *)
(* algebra, CircleBody and its velocity-Verlet update, and the force laws  *)
(* (orbital_force, harmonic_force, gravitational_force).                   *)
(*                                                                         *)
(* Numbers.  Every Python float is an integer count of the quantum         *)
(* 1/Scale, kept to PrecBits significant bits: an operation computes the   *)
(* exact result and rounds it to that format (Fl), as binary floating      *)
(* point does.  Trigonometry is exact on the four axis directions, which   *)
(* is where the model keeps every vector whose Cartesian components are    *)
(* read; atan2 of an off-axis pair is left undefined, so that TLC stops    *)
(* rather than approximates if a vector ever leaves the axes.              *)
(***************************************************************************)
EXTENDS Integers, Sequences, FiniteSets, TLC

VARIABLES
    bodies,      \* the CircleBody objects, by name: a body record, or NoBody
    trace,       \* the callback calls the last operation made, in order
    call,        \* the last operation called, with its arguments
    result,      \* how it ended: Done, the value returned, or Raise(e)
    nops,        \* operations called so far
    operandA,    \* vector algebra: a PolarVector the program holds
    operandB,    \* vector algebra: another one
    loop,        \* the driver's main loop: where it stands, or NoLoop
    trails,      \* the trail objects, by name
    history      \* what the trailed body was after each update called on it

vars == <<bodies, trace, call, result, nops, operandA, operandB, loop, trails, history>>

---------------------------------------------------------------------------
(* Floating point *)

Scale == 4
PrecBits == 9

\* the float n.0, and n degrees
R(n) == n * Scale
Half == Scale \div 2

Abs(a) == IF a < 0 THEN -a ELSE a

\* integer quotient rounded toward zero
Quot(a, b) ==
    IF (a >= 0) = (b > 0) THEN Abs(a) \div Abs(b) ELSE -(Abs(a) \div Abs(b))

RECURSIVE Pow2(_)
Pow2(n) == IF n = 0 THEN 1 ELSE 2 * Pow2(n - 1)

\* spacing of the representable values around a >= 0
RECURSIVE Ulp(_)
Ulp(a) == IF a < Pow2(PrecBits) THEN 1 ELSE 2 * Ulp(a \div 2)

\* a >= 0 to the nearest multiple of u, ties to the even multiple
RoundTo(a, u) ==
    LET q == a \div u
        r == a % u
    IN  IF 2 * r > u \/ (2 * r = u /\ q % 2 = 1) THEN (q + 1) * u ELSE q * u

\* round to the nearest representable float
Fl(v) == IF v >= 0 THEN RoundTo(v, Ulp(v)) ELSE -RoundTo(-v, Ulp(-v))

\* the exact quotient p / q (p >= 0, q > 0) rounded once to the nearest float
FlRatio(p, q) == RoundTo(p, q * Ulp(p \div q)) \div q

FAdd(a, b) == Fl(a + b)
FSub(a, b) == Fl(a - b)
FMul(a, b) ==
    IF (a >= 0) = (b >= 0) THEN FlRatio(Abs(a) * Abs(b), Scale)
    ELSE -FlRatio(Abs(a) * Abs(b), Scale)
\* b # 0: Python raises ZeroDivisionError first, which every caller models
FDiv(a, b) ==
    IF (a >= 0) = (b > 0) THEN FlRatio(Abs(a) * Scale, Abs(b))
    ELSE -FlRatio(Abs(a) * Scale, Abs(b))

\* largest r with r * r <= n, by bisection on lo * lo <= n < hi * hi
RECURSIVE ISqrtIn(_, _, _)
ISqrtIn(n, lo, hi) ==
    IF hi - lo <= 1 THEN lo
    ELSE LET mid == (lo + hi) \div 2
         IN  IF mid * mid <= n THEN ISqrtIn(n, mid, hi) ELSE ISqrtIn(n, lo, mid)

ISqrt(n) == ISqrtIn(n, 0, IF n < 46340 THEN n + 1 ELSE 46340)

\* math.sqrt(v) for v >= 0, correctly rounded: s is the root rounded down to
\* the quantum, and the exact root lies in [s, s + 1)
FSqrt(v) ==
    LET n == v * Scale
        s == ISqrt(n)
        u == Ulp(s)
        q == s \div u
        r == s % u
    IN  IF u = 1 THEN (IF n > s * s + s THEN s + 1 ELSE s)
        ELSE IF 2 * r > u \/ (2 * r = u /\ (s * s # n \/ q % 2 = 1))
            THEN (q + 1) * u
        ELSE q * u

\* math.sqrt(x*x + y*y): sqrt(x*x) is |x| in binary floating point, so the
\* squares are summed exactly and the root is rounded once
Hypot(x, y) == Fl(ISqrt(x * x + y * y))

\* math.cos / math.sin of an angle given in degrees (math.radians only changes
\* the unit); defined on the axis directions
CosDeg(d) ==
    LET m == d % R(360)
    IN  CASE m = R(0) -> 1 [] m = R(90) -> 0 [] m = R(180) -> -1 [] m = R(270) -> 0

SinDeg(d) ==
    LET m == d % R(360)
    IN  CASE m = R(0) -> 0 [] m = R(90) -> 1 [] m = R(180) -> 0 [] m = R(270) -> -1

\* math.atan2(y, x) * 180 / math.pi, in (-180, 180]; defined on the axes
Atan2Deg(y, x) ==
    CASE y = 0 /\ x >= 0 -> R(0)
      [] y = 0 /\ x < 0  -> R(180)
      [] x = 0 /\ y > 0  -> R(90)
      [] x = 0 /\ y < 0  -> -R(90)

\* Python's float %: C fmod (exact, sign of the dividend), then the divisor is
\* added when the signs differ, and that addition rounds
PyMod(v, w) ==
    LET m == v - w * Quot(v, w)
    IN  IF m # 0 /\ ((w < 0) # (m < 0)) THEN FAdd(m, w) ELSE m

\* how a call ends: it returns None, or a value (the value itself), or an
\* exception leaves it
Done == [returned |-> "None"]
Raise(e) == [exc |-> e]
IsExc(v) == "exc" \in DOMAIN v

---------------------------------------------------------------------------
(* class Angle *)

Angle(degrees) == [degrees |-> PyMod(degrees, R(360))]

Angle_add(self, other) == Angle(FAdd(self.degrees, other.degrees))

Angle_sub(self, other) == Angle(FSub(self.degrees, other.degrees))

---------------------------------------------------------------------------
(* class PolarVector *)

PolarVector(magnitude, angle) == [magnitude |-> magnitude, angle |-> angle]

from_cartesian(x, y) == PolarVector(Hypot(x, y), Angle(Atan2Deg(y, x)))

X(v) == v.magnitude * CosDeg(v.angle.degrees)
Y(v) == v.magnitude * SinDeg(v.angle.degrees)

\* __add__: law of cosines for the magnitude, every operation of the radicand
\* rounded as Python rounds it (m**2 as m*m), math.sqrt raising ValueError
\* ("math domain error") when the rounded radicand is negative; atan2 of the
\* Cartesian sum for the angle
PolarVector_add(self, other) ==
    LET c == CosDeg(self.angle.degrees - other.angle.degrees)
        radicand ==
            FAdd(FAdd(FMul(self.magnitude, self.magnitude),
                      FMul(other.magnitude, other.magnitude)),
                 FMul(FMul(FMul(R(2), self.magnitude), other.magnitude), R(c)))
    IN  IF radicand < 0 THEN Raise("ValueError")
        ELSE IF FSqrt(radicand) = 0 THEN PolarVector(0, self.angle)
        ELSE PolarVector(FSqrt(radicand),
                 Angle(Atan2Deg(FAdd(Y(self), Y(other)), FAdd(X(self), X(other)))))

PolarVector_sub(self, other) ==
    PolarVector_add(self,
        PolarVector(other.magnitude, Angle_add(other.angle, Angle(R(180)))))

PolarVector_mul(self, scalar) ==
    PolarVector(FMul(self.magnitude, Abs(scalar)),
                IF scalar < 0 THEN Angle_add(self.angle, Angle(R(180)))
                ELSE self.angle)

\* mutant: a zero divisor is let through and the vector handed back
PolarVector_truediv_unguarded(self, scalar) ==
    IF scalar = 0 THEN self
    ELSE PolarVector_mul(self, FDiv(R(1), scalar))

PolarVector_truediv(self, scalar) ==
    IF scalar = 0 THEN Raise("ValueError")
    ELSE PolarVector_mul(self, FDiv(R(1), scalar))

rotate(self, angle) == PolarVector(self.magnitude, Angle_add(self.angle, angle))

ZeroVector == PolarVector(0, Angle(0))

---------------------------------------------------------------------------
(* Force laws: the force_func closures, applied to body self_id of bs *)

G == 1000

\* the callback slot of a body that has none
None == [law |-> "None"]

orbital_force(center_x, center_y, magnitude) ==
    [law |-> "orbital", center_x |-> center_x, center_y |-> center_y,
     magnitude |-> magnitude]

harmonic_force(center_x, center_y, k) ==
    [law |-> "harmonic", center_x |-> center_x, center_y |-> center_y, k |-> k]

\* closes over the bodies themselves (their identities, in argument order)
gravitational_force(members) == [law |-> "gravitational", members |-> members]

orbital_force_func(cb, body) ==
    LET dx == FSub(cb.center_x, X(body.position))
        dy == FSub(cb.center_y, Y(body.position))
        distance == Hypot(dx, dy)
        dd == FMul(distance, distance)
    IN  IF distance < R(1) THEN PolarVector(0, Angle(0))
        ELSE IF dd = 0 THEN Raise("ZeroDivisionError")
        ELSE PolarVector(FDiv(cb.magnitude, dd), Angle(Atan2Deg(dy, dx)))

harmonic_force_func(cb, body) ==
    LET dx == FSub(cb.center_x, X(body.position))
        dy == FSub(cb.center_y, Y(body.position))
        distance == Hypot(dx, dy)
    IN  PolarVector(FMul(cb.k, distance), Angle(Atan2Deg(dy, dx)))

\* one pass of "for other_body in bodies", from the k-th captured body on; an
\* exception of the addition leaves the loop and the law
RECURSIVE gravitational_loop(_, _, _, _, _)
gravitational_loop(bs, members, self_id, k, resultant_force) ==
    IF IsExc(resultant_force) THEN resultant_force
    ELSE IF k > Len(members) THEN resultant_force
    ELSE
        LET body == bs[self_id]
            other_body == bs[members[k]]
            dx == FSub(X(other_body.position), X(body.position))
            dy == FSub(Y(other_body.position), Y(body.position))
            distance == Hypot(dx, dy)
            dd == FMul(distance, distance)
        IN  IF members[k] = self_id
                THEN gravitational_loop(bs, members, self_id, k + 1, resultant_force)
            ELSE IF distance < R(1)
                THEN gravitational_loop(bs, members, self_id, k + 1, resultant_force)
            ELSE IF dd = 0 THEN Raise("ZeroDivisionError")
            ELSE gravitational_loop(bs, members, self_id, k + 1,
                    PolarVector_add(resultant_force,
                        PolarVector(
                            FDiv(FMul(FMul(R(G), body.mass), other_body.mass), dd),
                            Angle(Atan2Deg(dy, dx)))))

gravitational_force_func(cb, bs, self_id) ==
    gravitational_loop(bs, cb.members, self_id, 1, PolarVector(0, Angle(0)))

\* self._force_callback(self, dt) for body self_id of bs
force_callback_call(bs, self_id) ==
    LET cb == bs[self_id].force_callback
    IN  CASE cb.law = "orbital" -> orbital_force_func(cb, bs[self_id])
          [] cb.law = "harmonic" -> harmonic_force_func(cb, bs[self_id])
          [] cb.law = "gravitational" -> gravitational_force_func(cb, bs, self_id)

---------------------------------------------------------------------------
(* class CircleBody (radius is drawing data and takes no part) *)

NoBody == [mass |-> "none"]

CircleBody(x, y, mass) ==
    [mass |-> mass,
     position |-> from_cartesian(x, y),
     velocity |-> PolarVector(0, Angle(0)),
     acceleration |-> PolarVector(0, Angle(0)),
     applied_force |-> PolarVector(0, Angle(0)),
     last_force |-> PolarVector(0, Angle(0)),
     force_callback |-> None,
     update_listeners |-> <<>>]

apply_force(self, force) ==
    [self EXCEPT !.applied_force = force, !.last_force = force]

calculate_acceleration(self, force) ==
    IF force.magnitude > 0
        THEN IF self.mass = 0 THEN Raise("ZeroDivisionError")
             ELSE PolarVector(FDiv(force.magnitude, self.mass), force.angle)
    ELSE PolarVector(0, Angle(0))

apply_drag(self, coefficient) ==
    IF self.velocity.magnitude > 0
        THEN LET drag_force ==
                     FMul(FMul(-coefficient, self.velocity.magnitude),
                          self.velocity.magnitude)
                 drag_angle == Angle_add(self.velocity.angle, Angle(R(180)))
             IN  apply_force(self, PolarVector(drag_force, drag_angle))
    ELSE self

apply_central_force(self, center_x, center_y, magnitude) ==
    LET dx == FSub(center_x, X(self.position))
        dy == FSub(center_y, Y(self.position))
        angle == Angle(Atan2Deg(dy, dx))
    IN  apply_force(self, PolarVector(magnitude, angle))

\* what a callback can read of the body it is handed
Seen(self) ==
    [position |-> self.position, velocity |-> self.velocity,
     acceleration |-> self.acceleration, applied_force |-> self.applied_force,
     last_force |-> self.last_force]

ForceCall(self, returned) ==
    [kind |-> "force", seen |-> Seen(self), returned |-> returned]

ListenerCall(listener, self) ==
    [kind |-> "listener", listener |-> listener, seen |-> Seen(self)]

\* "for listener in self._update_listeners: listener(self)"
notify_listeners(self) ==
    [k \in 1..Len(self.update_listeners) |->
        ListenerCall(self.update_listeners[k], self)]

Ended(bs, tr, how) == [bodies |-> bs, trace |-> tr, outcome |-> how]

\* the position and velocity steps of update, on one Cartesian component
new_coordinate(p, v, a, dt) ==
    FAdd(FAdd(p, FMul(v, dt)), FMul(FMul(FMul(Half, a), dt), dt))

new_velocity_component(v, a, new_a, dt) ==
    FAdd(v, FMul(FMul(Half, FAdd(a, new_a)), dt))

\* The stages of update(dt), last first.  Each takes what the earlier ones
\* computed: bs with the body as it stands, tr the callback calls made so far.

\* "for listener in self._update_listeners: listener(self)"
update_notify(bs, self_id, tr) ==
    Ended(bs, tr \o notify_listeners(bs[self_id]), "ok")

\* mutant: the reset at the end of update clears last_force as well
committed_resets_last_force(self, new_acceleration, dt) ==
    [self EXCEPT
        !.velocity =
            from_cartesian(
                new_velocity_component(X(self.velocity), X(self.acceleration),
                                       X(new_acceleration), dt),
                new_velocity_component(Y(self.velocity), Y(self.acceleration),
                                       Y(new_acceleration), dt)),
        !.acceleration = new_acceleration,
        !.applied_force = PolarVector(0, Angle(0)),
        !.last_force = PolarVector(0, Angle(0))]

\* "Update velocity using average of accelerations" and "Update state"
committed(self, new_acceleration, dt) ==
    [self EXCEPT
        !.velocity =
            from_cartesian(
                new_velocity_component(X(self.velocity), X(self.acceleration),
                                       X(new_acceleration), dt),
                new_velocity_component(Y(self.velocity), Y(self.acceleration),
                                       Y(new_acceleration), dt)),
        !.acceleration = new_acceleration,
        !.applied_force = PolarVector(0, Angle(0))]

update_commit(bs, self_id, dt, tr, new_acceleration) ==
    IF IsExc(new_acceleration) THEN Ended(bs, tr, new_acceleration.exc)
    ELSE update_notify(
            [bs EXCEPT ![self_id] = committed(@, new_acceleration, dt)],
            self_id, tr)

\* "Calculate new acceleration", with the force sampled at the new position
update_new_force(bs, self_id, dt, tr, new_force) ==
    IF IsExc(new_force) THEN Ended(bs, tr, new_force.exc)
    ELSE update_commit(bs, self_id, dt, tr,
                       calculate_acceleration(bs[self_id], new_force))

update_resample(bs, self_id, dt, tr, new_force) ==
    update_new_force(bs, self_id, dt,
                     Append(tr, ForceCall(bs[self_id], new_force)), new_force)

\* "Calculate new force at updated position": self.position is assigned
\* before the callback is asked again
update_moved(bs, self_id, dt, tr) ==
    IF bs[self_id].force_callback # None
        THEN update_resample(bs, self_id, dt, tr, force_callback_call(bs, self_id))
    ELSE update_new_force(bs, self_id, dt, tr, PolarVector(0, Angle(0)))

\* "Update position using current velocity and acceleration"
moved(self, dt) ==
    [self EXCEPT
        !.position =
            from_cartesian(
                new_coordinate(X(self.position), X(self.velocity),
                               X(self.acceleration), dt),
                new_coordinate(Y(self.position), Y(self.velocity),
                               Y(self.acceleration), dt))]

\* "Calculate current acceleration"
update_accelerated(bs, self_id, dt, tr, acceleration) ==
    IF IsExc(acceleration) THEN Ended(bs, tr, acceleration.exc)
    ELSE update_moved(
            [bs EXCEPT ![self_id] = moved([@ EXCEPT !.acceleration = acceleration], dt)],
            self_id, dt, tr)

update_accelerate(bs, self_id, dt, tr) ==
    update_accelerated(bs, self_id, dt, tr,
        calculate_acceleration(bs[self_id], bs[self_id].applied_force))

\* "Get force at current position"
update_forced(bs, self_id, dt, force) ==
    IF IsExc(force) THEN Ended(bs, <<ForceCall(bs[self_id], force)>>, force.exc)
    ELSE update_accelerate([bs EXCEPT ![self_id] = apply_force(@, force)],
                           self_id, dt, <<ForceCall(bs[self_id], force)>>)

\* CircleBody.update(dt) on body self_id of bs: the bodies, the callback calls
\* and the outcome it leaves ("ok", or the exception that ended it early)
update(bs, self_id, dt) ==
    IF bs[self_id].force_callback # None
        THEN update_forced(bs, self_id, dt, force_callback_call(bs, self_id))
    ELSE update_accelerate(bs, self_id, dt, <<>>)

---------------------------------------------------------------------------
(* The line the simulation runs on.  Every vector the model reads the        *)
(* components of lies on one axis through the origin; the inputs of an       *)
(* operation are drawn from those that keep it so.                           *)

AxisOf(v) ==
    IF v.magnitude = 0 THEN {}
    ELSE IF CosDeg(v.angle.degrees) # 0 THEN {"x"} ELSE {"y"}

PointAxes(x, y) ==
    (IF x # 0 THEN {"x"} ELSE {}) \cup (IF y # 0 THEN {"y"} ELSE {})

CallbackAxes(cb) ==
    IF cb.law \in {"orbital", "harmonic"} THEN PointAxes(cb.center_x, cb.center_y)
    ELSE {}

BodyAxes(b) ==
    IF b = NoBody THEN {}
    ELSE AxisOf(b.position) \cup AxisOf(b.velocity) \cup AxisOf(b.acceleration)
         \cup AxisOf(b.applied_force) \cup CallbackAxes(b.force_callback)

Axes(bs) == UNION {BodyAxes(bs[c]) : c \in DOMAIN bs}

OnTheLine(bs, more) == Cardinality(Axes(bs) \cup more) <= 1

---------------------------------------------------------------------------
(* Bounds and inputs *)

MaxOps == 4
MaxListeners == 2

AxisDegrees == {R(0), R(90), R(180), R(270)}

\* a body may start anywhere on the axes: far from, near (< 1) and at the origin
PointInputs == {<<R(2), 0>>, <<-1, 0>>, <<0, 0>>, <<0, -R(3)>>}

MassInputs == {R(2), 0, -R(1)}

VelocityInputs == {PolarVector(R(1), Angle(d)) : d \in AxisDegrees}

ForceInputs == {PolarVector(R(2), Angle(d)) : d \in AxisDegrees}

DtInputs == {Half, R(1)}

CoefficientInputs == {R(1)}

CentralInputs == {R(2), -R(2)}

Listeners == {"trail", "telemetry"}

SoloCallbacks ==
    {orbital_force(0, 0, R(8)), harmonic_force(0, 0, R(1)),
     gravitational_force(<<"circle">>)}

Call(op, args) == [op |-> op, args |-> args]

\* no driver loop is running, and no trail has been made
NoLoop == [pc |-> "none"]
NoTrails == [t \in {} |-> <<>>]

---------------------------------------------------------------------------
(* Spec: the life of one body, driven as main.py drives its circle *)

Init ==
    /\ bodies = [c \in {"circle"} |-> NoBody]
    /\ trace = <<>>
    /\ call = Call("none", <<>>)
    /\ result = Done
    /\ nops = 0
    /\ operandA = PolarVector(0, Angle(0))
    /\ operandB = PolarVector(0, Angle(0))
    /\ loop = NoLoop
    /\ trails = NoTrails
    /\ history = <<>>

Exists(c) == c \in DOMAIN bodies /\ bodies[c] # NoBody

\* an operation on body c that returns normally and leaves it as b
Does(c, op, args, b) ==
    /\ nops < MaxOps
    /\ Exists(c)
    /\ OnTheLine([bodies EXCEPT ![c] = b], {})
    /\ bodies' = [bodies EXCEPT ![c] = b]
    /\ call' = Call(op, args)
    /\ result' = Done
    /\ nops' = nops + 1
    /\ trace' = <<>>
    /\ UNCHANGED <<operandA, operandB, loop, trails, history>>

Construct ==
    \E p \in PointInputs, mass \in MassInputs :
        /\ bodies["circle"] = NoBody
        /\ bodies' = [bodies EXCEPT !["circle"] = CircleBody(p[1], p[2], mass)]
        /\ call' = Call("CircleBody", <<p[1], p[2], mass>>)
        /\ result' = Done
        /\ UNCHANGED <<trace, nops, operandA, operandB, loop, trails, history>>

\* "circle.velocity = PolarVector(orbit_velocity, initial_angle)"
SetVelocity ==
    \E v \in VelocityInputs :
        Does("circle", "velocity=", <<v>>, [bodies["circle"] EXCEPT !.velocity = v])

SetForceCallback ==
    \E cb \in SoloCallbacks :
        Does("circle", "set_force_callback", <<cb>>,
             [bodies["circle"] EXCEPT !.force_callback = cb])

AddUpdateListener ==
    \E listener \in Listeners :
        /\ Exists("circle")
        /\ Len(bodies["circle"].update_listeners) < MaxListeners
        /\ Does("circle", "add_update_listener", <<listener>>,
                [bodies["circle"] EXCEPT
                    !.update_listeners = Append(@, listener)])

ApplyForce ==
    \E force \in ForceInputs :
        Does("circle", "apply_force", <<force>>, apply_force(bodies["circle"], force))

ApplyDrag ==
    \E coefficient \in CoefficientInputs :
        Does("circle", "apply_drag", <<coefficient>>,
             apply_drag(bodies["circle"], coefficient))

ApplyCentralForce ==
    \E magnitude \in CentralInputs :
        Does("circle", "apply_central_force", <<0, 0, magnitude>>,
             apply_central_force(bodies["circle"], 0, 0, magnitude))

Update ==
    \E dt \in DtInputs :
        /\ nops < MaxOps
        /\ Exists("circle")
        /\ LET u == update(bodies, "circle", dt)
           IN  /\ bodies' = u.bodies
               /\ trace' = u.trace
               /\ result' = IF u.outcome = "ok" THEN Done ELSE Raise(u.outcome)
        /\ call' = Call("update", <<dt>>)
        /\ nops' = nops + 1
        /\ UNCHANGED <<operandA, operandB, loop, trails, history>>

Next ==
    \/ Construct
    \/ SetVelocity
    \/ SetForceCallback
    \/ AddUpdateListener
    \/ ApplyForce
    \/ ApplyDrag
    \/ ApplyCentralForce
    \/ Update

Spec == Init /\ [][Next]_vars

---------------------------------------------------------------------------
(* SpecAlg: the Angle and PolarVector operations on values the program holds *)

MaxAlgOps == 2

\* degrees given to Angle(): whole turns and more, negatives, and the smallest
\* negative float
DegreeInputs == {-1, -R(10), R(0), R(90), R(180), R(270), R(350), R(360), R(370), R(720)}

\* magnitudes: zero, one, and two neighbouring floats (15.25 and 15.5)
MagnitudeInputs == {0, R(1), 61, 62}

VectorInputs ==
    {PolarVector(m, Angle(d)) : m \in MagnitudeInputs, d \in {R(0), R(90), R(180), R(350)}}

ScalarInputs == {-R(2), 0, Half, R(2)}

OnAxis(v) == v.angle.degrees % R(90) = 0

\* both on the axes, and on the same one
Collinear(a, b) ==
    OnAxis(a) /\ OnAxis(b) /\ Cardinality(AxisOf(a) \cup AxisOf(b)) <= 1

AlgInit ==
    /\ bodies = [c \in {"circle"} |-> NoBody]
    /\ trace = <<>>
    /\ call = Call("none", <<>>)
    /\ result = Done
    /\ nops = 0
    /\ operandA \in VectorInputs
    /\ operandB \in VectorInputs
    /\ loop = NoLoop
    /\ trails = NoTrails
    /\ history = <<>>

\* an operation that returns r (or raises it) and assigns nothing
Returns(op, args, r) ==
    /\ call' = Call(op, args)
    /\ result' = r
    /\ UNCHANGED <<bodies, trace, nops, operandA, operandB, loop, trails, history>>

AngleNew ==
    \E degrees \in DegreeInputs : Returns("Angle", <<degrees>>, Angle(degrees))

AngleAdd ==
    Returns("Angle.__add__", <<operandA.angle, operandB.angle>>,
            Angle_add(operandA.angle, operandB.angle))

AngleSub ==
    Returns("Angle.__sub__", <<operandA.angle, operandB.angle>>,
            Angle_sub(operandA.angle, operandB.angle))

VectorAdd ==
    /\ Collinear(operandA, operandB)
    /\ Returns("PolarVector.__add__", <<operandA, operandB, loop, trails, history>>,
               PolarVector_add(operandA, operandB))

VectorSub ==
    /\ Collinear(operandA, operandB)
    /\ Returns("PolarVector.__sub__", <<operandA, operandB, loop, trails, history>>,
               PolarVector_sub(operandA, operandB))

VectorMul ==
    \E scalar \in ScalarInputs :
        Returns("PolarVector.__mul__", <<operandA, scalar>>,
                PolarVector_mul(operandA, scalar))

VectorTrueDiv ==
    \E scalar \in ScalarInputs :
        Returns("PolarVector.__truediv__", <<operandA, scalar>>,
                PolarVector_truediv(operandA, scalar))

VectorRotate ==
    Returns("PolarVector.rotate", <<operandA, operandB.angle>>,
            rotate(operandA, operandB.angle))

\* "a = <the vector just returned>": later operations work on results
Rebind ==
    /\ nops < MaxAlgOps
    /\ call.op \in {"PolarVector.__add__", "PolarVector.__sub__",
                    "PolarVector.__mul__", "PolarVector.__truediv__",
                    "PolarVector.rotate"}
    /\ ~IsExc(result)
    /\ operandA' = result
    /\ nops' = nops + 1
    /\ UNCHANGED <<bodies, trace, call, result, operandB, loop, trails, history>>

AlgNext ==
    \/ AngleNew
    \/ AngleAdd
    \/ AngleSub
    \/ VectorAdd
    \/ VectorSub
    \/ VectorMul
    \/ VectorTrueDiv
    \/ VectorRotate
    \/ Rebind

SpecAlg == AlgInit /\ [][AlgNext]_vars

---------------------------------------------------------------------------
(* SpecForce: the force laws, asked about bodies placed along a line *)

Circles == <<"circle1", "circle2", "circle3">>

\* coordinates on the line: some less than 1 apart, and two (8.0 and -11.5)
\* from which a body at 0 is pulled almost equally in opposite directions
CoordinateInputs == {-46, -R(2), 0, 2, R(1), R(8)}

ForceMassInputs == {R(1), R(2)}

LineInputs == {"x", "y"}

MemberInputs == {Circles, <<"circle2", "circle1">>}

CenterInputs == {0, R(1)}

OnLine(line, c) == IF line = "x" THEN <<c, 0>> ELSE <<0, c>>

ForceInit ==
    /\ \E line \in LineInputs, mass \in ForceMassInputs :
       \E c1 \in CoordinateInputs, c2 \in CoordinateInputs, c3 \in CoordinateInputs :
          bodies =
              [c \in {"circle1", "circle2", "circle3"} |->
                  LET at == OnLine(line, CASE c = "circle1" -> c1
                                           [] c = "circle2" -> c2
                                           [] c = "circle3" -> c3)
                  IN  CircleBody(at[1], at[2], IF c = "circle1" THEN mass ELSE R(1))]
    /\ trace = <<>>
    /\ call = Call("none", <<>>)
    /\ result = Done
    /\ nops = 0
    /\ operandA = PolarVector(0, Angle(0))
    /\ operandB = PolarVector(0, Angle(0))
    /\ loop = NoLoop
    /\ trails = NoTrails
    /\ history = <<>>

\* orbital_force(center_x, center_y, magnitude)(body, dt)
AskOrbital ==
    \E c \in DOMAIN bodies, center \in CenterInputs, line \in LineInputs :
        LET at == OnLine(line, center)
            cb == orbital_force(at[1], at[2], R(8))
        IN  /\ OnTheLine(bodies, CallbackAxes(cb))
            /\ call' = Call("orbital_force", <<cb, c>>)
            /\ result' = orbital_force_func(cb, bodies[c])
            /\ UNCHANGED <<bodies, trace, nops, operandA, operandB, loop, trails, history>>

\* gravitational_force(*members)(body, dt)
AskGravitational ==
    \E c \in DOMAIN bodies, members \in MemberInputs :
        LET cb == gravitational_force(members)
        IN  /\ call' = Call("gravitational_force", <<cb, c>>)
            /\ result' = gravitational_force_func(cb, bodies, c)
            /\ UNCHANGED <<bodies, trace, nops, operandA, operandB, loop, trails, history>>

ForceNext ==
    \/ AskOrbital
    \/ AskGravitational

SpecForce == ForceInit /\ [][ForceNext]_vars

---------------------------------------------------------------------------
(* trail.py: Trail, SmoothTrail, SmoothTrailWithGlow (drawing takes no part) *)

TrailKinds == {"Trail", "SmoothTrail", "SmoothTrailWithGlow"}

\* __init__: the trail is bound to its circle by the caller's add_update_listener
Trail(kind, circle, max_length) ==
    [kind |-> kind, circle |-> circle, max_length |-> max_length,
     trail_points |-> <<>>]

\* what update appends: the position vector, (x, y), or (x, y, vel_x, vel_y)
trail_point(kind, body) ==
    CASE kind = "Trail" -> body.position
      [] kind = "SmoothTrail" -> <<X(body.position), Y(body.position)>>
      [] kind = "SmoothTrailWithGlow" ->
            <<X(body.position), Y(body.position), X(body.velocity), Y(body.velocity)>>

\* update(self, _): append, then pop(0) once if the list is longer than allowed
trail_update(self, bs) ==
    LET appended == Append(self.trail_points, trail_point(self.kind, bs[self.circle]))
    IN  [self EXCEPT
            !.trail_points =
                IF Len(appended) > self.max_length THEN Tail(appended) ELSE appended]

\* the listener calls of one update, made in order on the trails they belong to
RECURSIVE listeners_heard(_, _, _, _)
listeners_heard(ts, tr, bs, k) ==
    IF k > Len(tr) THEN ts
    ELSE IF tr[k].kind = "listener" /\ tr[k].listener \in DOMAIN ts
        THEN listeners_heard([ts EXCEPT ![tr[k].listener] = trail_update(@, bs)],
                             tr, bs, k + 1)
    ELSE listeners_heard(ts, tr, bs, k + 1)

---------------------------------------------------------------------------
(* SpecDriver: the main loops of main.py and multi-body.py *)

PHYSICS_STEPS_PER_FRAME == 8
DriverTrailLength == 1000

MaxFrames == 2

\* frames per second, scaled so that dt = 1 / FPS is a float of the model
FpsInputs == {R(1), R(2)}

\* where the bodies start on the line, the first one listed at the origin
PlacementInputs == {<<0, R(8), -R(16)>>, <<0, -R(12), R(6)>>, <<0, R(4), R(16)>>}

\* masses (0.25 and 0.5) light enough for the bodies to stay in the range of
\* the model's numbers over MaxFrames frames, and the mass 0 that makes
\* update raise
DriverMassInputs == {0, 1, 2}

\* a body as the drivers set it up: constructed, given a velocity, a force
\* callback and a glowing trail
driven(at, mass, velocity, callback, trail) ==
    [CircleBody(at[1], at[2], mass) EXCEPT
        !.velocity = velocity,
        !.force_callback = callback,
        !.update_listeners = <<trail>>]

\* the loop as it stands before "while running" is first reached
Loop(program, circles, fps) ==
    [program |-> program,
     circles |-> circles,
     pc |-> "while",
     running |-> TRUE,
     fps |-> fps,
     dt |-> IF program = "main"
                THEN FDiv(R(1), FMul(fps, R(PHYSICS_STEPS_PER_FRAME)))
            ELSE FDiv(R(1), fps),
     frame |-> 0,
     i |-> 1,
     j |-> 0,
     steps |-> [k \in 1..Len(circles) |-> 0],
     dts |-> {},
     reading |-> <<>>,
     drawn |-> <<>>]

DriverInit ==
    /\ \E program \in {"main", "multi-body"}, fps \in FpsInputs, line \in LineInputs,
          place \in PlacementInputs, mass \in DriverMassInputs :
          IF program = "main"
              THEN /\ bodies =
                        [c \in {"circle"} |->
                            driven(OnLine(line, place[2]), mass,
                                   PolarVector(0, Angle(0)),
                                   orbital_force(0, 0, R(8)), "trail")]
                   /\ trails =
                        [t \in {"trail"} |->
                            Trail("SmoothTrailWithGlow", "circle", DriverTrailLength)]
                   /\ loop = Loop(program, <<"circle">>, fps)
          ELSE /\ bodies =
                    [c \in {"circle1", "circle2", "circle3"} |->
                        LET n == CASE c = "circle1" -> 1 [] c = "circle2" -> 2
                                   [] c = "circle3" -> 3
                        IN  driven(OnLine(line, place[n]),
                                   IF n = 1 THEN mass ELSE 1,
                                   PolarVector(0, Angle(0)),
                                   gravitational_force(Circles),
                                   CASE n = 1 -> "trail1" [] n = 2 -> "trail2"
                                     [] n = 3 -> "trail3")]
               /\ trails =
                    [t \in {"trail1", "trail2", "trail3"} |->
                        Trail("SmoothTrailWithGlow",
                              CASE t = "trail1" -> "circle1" [] t = "trail2" -> "circle2"
                                [] t = "trail3" -> "circle3",
                              DriverTrailLength)]
               /\ loop = Loop(program, Circles, fps)
    /\ history = <<>>
    /\ trace = <<>>
    /\ call = Call("none", <<>>)
    /\ result = Done
    /\ nops = 0
    /\ operandA = PolarVector(0, Angle(0))
    /\ operandB = PolarVector(0, Angle(0))

\* "while running:", and pygame.quit() after the loop
WhileRunning ==
    /\ loop.pc = "while"
    /\ loop' = [loop EXCEPT !.pc = IF loop.running THEN "events" ELSE "quit"]
    /\ UNCHANGED <<bodies, trace, call, result, nops, operandA, operandB, trails, history>>

\* window.fill, the event loop (a QUIT event clears running; the window is
\* closed during frame MaxFrames at the latest), main.py's "dt = 1 / FPS",
\* multi-body.py's viewport.update
Events ==
    /\ loop.pc = "events"
    /\ \E quit \in BOOLEAN :
          /\ loop.frame + 1 >= MaxFrames => quit
          /\ loop' = [loop EXCEPT
                         !.pc = "physics",
                         !.running = ~quit,
                         !.dt = IF loop.program = "main" THEN FDiv(R(1), loop.fps)
                                ELSE @,
                         !.i = 1,
                         !.j = 0,
                         !.drawn = <<>>]
    /\ UNCHANGED <<bodies, trace, call, result, nops, operandA, operandB, trails, history>>

\* mutant: the physics of a frame ends with the first body's updates
after_update_first_body_only(l) ==
    LET stepped == [l EXCEPT !.steps[l.i] = @ + 1, !.j = @ + 1]
    IN  IF stepped.j < PHYSICS_STEPS_PER_FRAME THEN stepped
        ELSE [stepped EXCEPT !.pc = "draw", !.i = 1, !.j = 0]

\* the loop after one more update of circles[i] has returned: multi-body.py
\* runs "for circle_container in circles: for _ in range(...)", main.py the
\* inner loop on its one circle
after_update(l) ==
    LET stepped == [l EXCEPT !.steps[l.i] = @ + 1, !.j = @ + 1]
    IN  IF stepped.j < PHYSICS_STEPS_PER_FRAME THEN stepped
        ELSE IF l.i < Len(l.circles) THEN [stepped EXCEPT !.i = @ + 1, !.j = 0]
        ELSE [stepped EXCEPT !.pc = "draw", !.i = 1, !.j = 0]

\* the loop with the call of circles[i].update(dt) noted: the dt handed over,
\* and how many updates each body had completed when the force callback of
\* the updated body read the bodies' positions
update_asked(l) ==
    [l EXCEPT !.dts = @ \cup {l.dt},
              !.reading = [body |-> l.i, steps |-> l.steps]]

\* "circle.update(dt)", once; an exception ends the program with a traceback
PhysicsStep ==
    /\ loop.pc = "physics"
    /\ LET c == loop.circles[loop.i]
           u == update(bodies, c, loop.dt)
           asked == update_asked(loop)
       IN  /\ bodies' = u.bodies
           /\ trace' = u.trace
           /\ trails' = listeners_heard(trails, u.trace, u.bodies, 1)
           /\ call' = Call("update", <<loop.dt>>)
           /\ result' = IF u.outcome = "ok" THEN Done ELSE Raise(u.outcome)
           /\ loop' = IF u.outcome = "ok" THEN after_update(asked)
                      ELSE [asked EXCEPT !.pc = "crashed"]
    /\ UNCHANGED <<nops, operandA, operandB, history>>

\* one pass of "Draw everything": the trail and the circle of circles[i]
Draw ==
    /\ loop.pc = "draw"
    /\ loop' = IF loop.i < Len(loop.circles)
                   THEN [loop EXCEPT !.drawn = Append(@, loop.circles[loop.i]),
                                     !.i = @ + 1]
               ELSE [loop EXCEPT !.drawn = Append(@, loop.circles[loop.i]),
                                 !.pc = "flip"]
    /\ UNCHANGED <<bodies, trace, call, result, nops, operandA, operandB, trails, history>>

\* pygame.display.flip() and clock.tick(FPS): the frame is on the screen
Flip ==
    /\ loop.pc = "flip"
    /\ loop' = [loop EXCEPT !.pc = "while", !.frame = @ + 1]
    /\ UNCHANGED <<bodies, trace, call, result, nops, operandA, operandB, trails, history>>

DriverNext ==
    \/ WhileRunning
    \/ Events
    \/ PhysicsStep
    \/ Draw
    \/ Flip

SpecDriver == DriverInit /\ [][DriverNext]_vars

---------------------------------------------------------------------------
(* SpecTrail: one body with a trail of any of the three kinds bound to it *)

MaxLengthInputs == {0, 1, 2}

\* the body constructed and the trail constructed on it: __init__ binds the
\* trail's update to the circle as an update listener
TrailInit ==
    /\ \E kind \in TrailKinds, max_length \in MaxLengthInputs,
          p \in PointInputs, mass \in MassInputs :
          /\ bodies = [c \in {"circle"} |->
                          [CircleBody(p[1], p[2], mass) EXCEPT
                              !.update_listeners = <<"trail">>]]
          /\ trails = [t \in {"trail"} |-> Trail(kind, "circle", max_length)]
    /\ history = <<>>
    /\ trace = <<>>
    /\ call = Call("none", <<>>)
    /\ result = Done
    /\ nops = 0
    /\ operandA = PolarVector(0, Angle(0))
    /\ operandB = PolarVector(0, Angle(0))
    /\ loop = NoLoop

\* circle.update(dt) with the trail listening
TrailedUpdate ==
    \E dt \in DtInputs :
        /\ nops < MaxOps
        /\ LET u == update(bodies, "circle", dt)
           IN  /\ bodies' = u.bodies
               /\ trace' = u.trace
               /\ trails' = listeners_heard(trails, u.trace, u.bodies, 1)
               /\ history' = Append(history, Seen(u.bodies["circle"]))
               /\ result' = IF u.outcome = "ok" THEN Done ELSE Raise(u.outcome)
        /\ call' = Call("update", <<dt>>)
        /\ nops' = nops + 1
        /\ UNCHANGED <<operandA, operandB, loop>>

TrailNext ==
    \/ SetVelocity
    \/ ApplyForce
    \/ TrailedUpdate

SpecTrail == TrailInit /\ [][TrailNext]_vars

---------------------------------------------------------------------------
(* Claims about update(dt), checked under Spec *)

\* the step that is one call of update(dt) on the circle
UpdateCalled == nops' = nops + 1 /\ call'.op = "update"

ForceCalls(tr) == SelectSeq(tr, LAMBDA e : e.kind = "force")
ListenerCalls(tr) == SelectSeq(tr, LAMBDA e : e.kind = "listener")

\* C1: one call to update(dt) invokes every registered observer exactly once,
\* in registration order, and each sees the body with the new position,
\* velocity and acceleration of that update and applied_force reset to zero
\* (so after every callback call for the force).
C1_ObserversNotifiedOnceInOrder ==
    call.op = "update" =>
        LET self == bodies["circle"]
            heard == ListenerCalls(trace)
        IN  /\ [k \in 1..Len(heard) |-> heard[k].listener] = self.update_listeners
            /\ \A k \in 1..Len(heard) :
                  /\ heard[k].seen = Seen(self)
                  /\ heard[k].seen.applied_force = PolarVector(0, Angle(0))
            /\ \A i \in 1..Len(trace), j \in 1..Len(trace) :
                  (i < j /\ trace[i].kind = "listener") => trace[j].kind = "listener"

\* C2: with a force callback set, one call to update(dt) invokes it exactly
\* twice: first on the body at its pre-update position, then on the body at
\* position + velocity*dt + 0.5*acceleration*dt^2 with the velocity still the
\* pre-update one; the velocity changes only afterwards.  With no callback it
\* is never invoked and the force at the new position is zero.
C2_CallbackSampledTwice ==
    [][UpdateCalled =>
        LET self == bodies["circle"]
            asked == ForceCalls(trace')
        IN  IF self.force_callback # None
                THEN /\ Len(asked) = 2
                     /\ asked[1].seen.position = self.position
                     /\ asked[1].seen.velocity = self.velocity
                     /\ asked[2].seen.velocity = self.velocity
                     /\ asked[2].seen.position = bodies'["circle"].position
                     /\ asked[2].seen.position =
                            moved([self EXCEPT
                                      !.acceleration =
                                          calculate_acceleration(self, asked[1].returned)],
                                  call'.args[1]).position
                ELSE /\ Len(asked) = 0
                     /\ bodies'["circle"].acceleration = PolarVector(0, Angle(0))
      ]_vars

\* C3: after every completed update(dt) applied_force is the zero vector and
\* last_force is not reset: with a callback set it is the force the first
\* (pre-move) callback call returned, with none it is what it was before.
C3_AppliedForceResetLastForceKept ==
    [][(UpdateCalled /\ result' = Done) =>
        LET self == bodies["circle"]
            after == bodies'["circle"]
        IN  /\ after.applied_force = PolarVector(0, Angle(0))
            /\ IF self.force_callback # None
                   THEN /\ trace'[1].kind = "force"
                        /\ trace'[1].seen.position = self.position
                        /\ after.last_force = trace'[1].returned
               ELSE after.last_force = self.last_force
      ]_vars

\* C3 witness: an update with a callback completed and left a non-zero
\* last_force beside the zeroed applied_force
C3_Witness ==
    /\ call.op = "update"
    /\ result = Done
    /\ bodies["circle"].force_callback # None
    /\ bodies["circle"].last_force.magnitude > 0
    /\ bodies["circle"].applied_force.magnitude = 0

\* C4: no CircleBody with mass <= 0 ever exists (construction rejects it), so
\* every body that reaches update(dt) has mass > 0.
C4_EveryBodyHasPositiveMass ==
    \A c \in DOMAIN bodies : bodies[c] # NoBody => bodies[c].mass > 0

\* C6: update(dt) has no partial failure: a call either completes (the body
\* advanced, applied_force reset, observers notified) or fails having changed
\* none of the body's stored quantities.
C6_UpdateIsAllOrNothing ==
    [][UpdateCalled =>
        \/ /\ result' = Done
           /\ bodies'["circle"].applied_force = PolarVector(0, Angle(0))
           /\ Len(ListenerCalls(trace')) = Len(bodies["circle"].update_listeners)
        \/ /\ IsExc(result')
           /\ bodies' = bodies
      ]_vars

\* C10: vector magnitude is never negative: after any sequence of body
\* operations every vector stored in a body has magnitude >= 0.
C10_StoredMagnitudesNonNegative ==
    \A c \in DOMAIN bodies :
        bodies[c] # NoBody =>
            /\ bodies[c].position.magnitude >= 0
            /\ bodies[c].velocity.magnitude >= 0
            /\ bodies[c].acceleration.magnitude >= 0
            /\ bodies[c].applied_force.magnitude >= 0
            /\ bodies[c].last_force.magnitude >= 0

\* the step that is one call of apply_drag(coefficient) on the circle
DragCalled == nops' = nops + 1 /\ call'.op = "apply_drag"

\* vector f points against vector v: their dot product is negative
Against(f, v) == X(f) * X(v) + Y(f) * Y(v) < 0

\* C13: apply_drag(coefficient > 0) on a body with non-zero velocity applies a
\* force directed opposite to the velocity, and a following update(dt) on a
\* body without force callback computes an acceleration opposite to the
\* velocity; on a body with zero velocity apply_drag changes nothing.
C13_DragOpposesVelocity ==
    [][(DragCalled /\ call'.args[1] > 0) =>
        LET self == bodies["circle"]
            after == bodies'["circle"]
        IN  IF self.velocity.magnitude = 0 THEN after = self
            ELSE /\ Against(after.applied_force, self.velocity)
                 /\ self.force_callback = None =>
                       \A dt \in DtInputs :
                           LET u == update(bodies', "circle", dt)
                           IN  /\ u.outcome = "ok"
                               /\ Against(u.bodies["circle"].acceleration,
                                          self.velocity)
      ]_vars

\* C15: on a body with no force callback the update(dt) that follows an
\* apply_force uses the force for the acceleration (the velocity gains
\* 0.5 * force/mass * dt) and resets applied_force to zero; every later
\* update(dt) without a new apply_force leaves the velocity's Cartesian
\* components unchanged, sets acceleration to the zero vector and moves the
\* position by exactly velocity * dt.
C15_AppliedForceActsOnce ==
    [][(UpdateCalled /\ bodies["circle"].force_callback = None) =>
        LET self == bodies["circle"]
            after == bodies'["circle"]
            dt == call'.args[1]
            force == self.applied_force
            gain(f) == FMul(FMul(Half, FDiv(f, self.mass)), dt)
        IN  /\ result' = Done
            /\ after.applied_force = PolarVector(0, Angle(0))
            /\ after.acceleration = PolarVector(0, Angle(0))
            /\ IF force.magnitude = 0
                   THEN /\ X(after.velocity) = X(self.velocity)
                        /\ Y(after.velocity) = Y(self.velocity)
                        /\ X(after.position) =
                               FAdd(X(self.position), FMul(X(self.velocity), dt))
                        /\ Y(after.position) =
                               FAdd(Y(self.position), FMul(Y(self.velocity), dt))
               ELSE /\ self.mass # 0
                    /\ X(after.velocity) = FAdd(X(self.velocity), gain(X(force)))
                    /\ Y(after.velocity) = FAdd(Y(self.velocity), gain(Y(force)))
      ]_vars

---------------------------------------------------------------------------
(* Claims about the vector algebra, checked under SpecAlg *)

\* the step that is one call of v / k
TrueDivCalled == nops' = nops /\ call'.op = "PolarVector.__truediv__"

\* C5: v / 0 always fails with an error, returns no vector and leaves v's
\* magnitude and angle as they were; for k # 0, v / k returns what v * (1/k)
\* returns.
C5_DivisionByZeroFails ==
    [][TrueDivCalled =>
        LET self == call'.args[1]
            scalar == call'.args[2]
        IN  /\ self = operandA
            /\ operandA' = operandA
            /\ IF scalar = 0 THEN result' = Raise("ValueError")
               ELSE /\ ~IsExc(result')
                    /\ result' = PolarVector_mul(self, FDiv(R(1), scalar))
      ]_vars

\* C5 witness: a division by zero of a non-zero vector was attempted and
\* raised
C5_Witness ==
    /\ call.op = "PolarVector.__truediv__"
    /\ call.args[2] = 0
    /\ call.args[1].magnitude > 0
    /\ IsExc(result)

InRange(angle) == 0 <= angle.degrees /\ angle.degrees < R(360)

\* C9: every Angle value has degrees in [0, 360): those constructed from any
\* degree value, and the results of Angle addition and subtraction, which
\* leave both operands unchanged.
C9_AnglesNormalised ==
    [][/\ InRange(operandA'.angle)
       /\ InRange(operandB'.angle)
       /\ call'.op \in {"Angle", "Angle.__add__", "Angle.__sub__"} => InRange(result')
       /\ (nops' = nops /\ call'.op \in {"Angle.__add__", "Angle.__sub__"}) =>
              /\ call'.args = <<operandA.angle, operandB.angle>>
              /\ operandA' = operandA
              /\ operandB' = operandB
      ]_vars

\* equal up to sixteen units in the last place of a number as large as the
\* two magnitudes together
Agree(x, y, a, b) == Abs(x - y) <= 16 * Ulp(Abs(a.magnitude) + Abs(b.magnitude))

\* C12: a + b has the Cartesian components (a.x + b.x, a.y + b.y) and the
\* length of that sum as magnitude (up to rounding); b + a has the same
\* magnitude and components; and a plus its negation (same magnitude, angle
\* + 180) has magnitude 0.
C12_AdditionAgreesWithCartesian ==
    call.op = "PolarVector.__add__" =>
        LET a == call.args[1]
            b == call.args[2]
            swapped == PolarVector_add(b, a)
            x == FAdd(X(a), X(b))
            y == FAdd(Y(a), Y(b))
        IN  /\ ~IsExc(result)
            /\ Agree(X(result), x, a, b)
            /\ Agree(Y(result), y, a, b)
            /\ Agree(result.magnitude, Hypot(x, y), a, b)
            /\ ~IsExc(swapped)
            /\ swapped.magnitude = result.magnitude
            /\ X(swapped) = X(result)
            /\ Y(swapped) = Y(result)
            /\ b = PolarVector(a.magnitude, Angle_add(a.angle, Angle(R(180))))
                   => result.magnitude = 0

---------------------------------------------------------------------------
(* Claims about the force laws, checked under SpecForce *)

\* distance between two points of the line (one coordinate of each is 0)
Separation(x1, y1, x2, y2) == Abs(x2 - x1) + Abs(y2 - y1)

Apart(b, c) ==
    Separation(X(bodies[b].position), Y(bodies[b].position),
               X(bodies[c].position), Y(bodies[c].position))

\* the captured bodies that pull on body c: the others, a unit or more away
Pulling(members, c) ==
    SelectSeq(members, LAMBDA o : o # c /\ Apart(c, o) >= R(1))

\* C7: the orbital law returns exactly the zero vector whenever the body is
\* less than 1 from the centre, the pairwise law adds nothing for a peer less
\* than 1 away, and neither ever raises, wherever the bodies are.
C7_SingularityGuard ==
    /\ call.op = "orbital_force" =>
           LET cb == call.args[1]
               body == bodies[call.args[2]]
           IN  /\ ~IsExc(result)
               /\ Separation(X(body.position), Y(body.position),
                             cb.center_x, cb.center_y) < R(1)
                      => result = PolarVector(0, Angle(0))
    /\ call.op = "gravitational_force" =>
           LET members == call.args[1].members
               c == call.args[2]
           IN  /\ ~IsExc(result)
               /\ result = gravitational_loop(bodies, Pulling(members, c), c, 1,
                                              PolarVector(0, Angle(0)))
               /\ Len(Pulling(members, c)) = 0 => result.magnitude = 0

\* the pull of body o on body c along one axis: G * m_c * m_o / distance^2,
\* signed toward o
Pull(c, o, axis) ==
    LET towards ==
            IF axis = "x" THEN X(bodies[o].position) - X(bodies[c].position)
            ELSE Y(bodies[o].position) - Y(bodies[c].position)
        strength ==
            FDiv(FMul(FMul(R(G), bodies[c].mass), bodies[o].mass),
                 FMul(Apart(c, o), Apart(c, o)))
    IN  IF towards > 0 THEN strength ELSE IF towards < 0 THEN -strength ELSE 0

RECURSIVE PullSum(_, _, _, _)
PullSum(pulling, c, axis, k) ==
    IF k = 0 THEN 0
    ELSE FAdd(PullSum(pulling, c, axis, k - 1), Pull(c, pulling[k], axis))

\* the pulls' magnitudes added up: the scale against which a rounding error of
\* their sum is measured
RECURSIVE PullTotal(_, _, _, _)
PullTotal(pulling, c, axis, k) ==
    IF k = 0 THEN 0
    ELSE PullTotal(pulling, c, axis, k - 1) + Abs(Pull(c, pulling[k], axis))

\* equal up to the rounding errors of a short computation with numbers of the
\* given scale: sixteen units in their last place
Close(a, b, scale) == Abs(a - b) <= 16 * Ulp(scale)

\* C8: the force a gravitational law returns for a body is the vector sum of
\* G*m_self*m_other/distance^2 directed toward each other captured body at
\* distance >= 1 (up to rounding); it holds no pull of the body on itself, and
\* it is the zero vector when no other captured body is that far.
C8_GravitationIsSumOfPulls ==
    call.op = "gravitational_force" =>
        LET c == call.args[2]
            pulling == Pulling(call.args[1].members, c)
            n == Len(pulling)
        IN  /\ ~IsExc(result)
            /\ Close(X(result), PullSum(pulling, c, "x", n), PullTotal(pulling, c, "x", n))
            /\ Close(Y(result), PullSum(pulling, c, "y", n), PullTotal(pulling, c, "y", n))
            /\ n = 0 => result = PolarVector(0, Angle(0))

---------------------------------------------------------------------------
(* Claims about the drivers, checked under SpecDriver *)

\* the frames whose physics is complete: those on the screen, and the one
\* being drawn
Simulated(l) == IF l.pc \in {"draw", "flip"} THEN l.frame + 1 ELSE l.frame

\* C11: in every rendered frame update(dt) is invoked exactly
\* PHYSICS_STEPS_PER_FRAME times on each body, always with the one dt = 1/FPS,
\* all of it before any drawing of that frame, and at the end of every frame
\* all bodies have completed the same number of sub-steps.
C11_FrameRunsAllSubsteps ==
    loop.pc # "none" =>
        /\ loop.dts \subseteq {FDiv(R(1), loop.fps)}
        /\ loop.pc \in {"physics", "crashed"} =>
              /\ loop.drawn = <<>>
              /\ \A k \in 1..Len(loop.circles) :
                    /\ loop.steps[k] >= PHYSICS_STEPS_PER_FRAME * loop.frame
                    /\ loop.steps[k] <= PHYSICS_STEPS_PER_FRAME * (loop.frame + 1)
        /\ loop.pc \notin {"physics", "crashed"} =>
              \A k \in 1..Len(loop.circles) :
                  loop.steps[k] = PHYSICS_STEPS_PER_FRAME * Simulated(loop)

\* C11 witness: the second frame of the three-body driver is drawn
C11_Witness ==
    /\ loop.pc = "flip"
    /\ loop.program = "multi-body"
    /\ loop.frame = 1
    /\ Len(loop.drawn) = 3

\* C14: in the multi-body driver, whenever the gravitational law of a body
\* being updated reads a peer's position, the peer has completed as many
\* sub-steps as the body, or exactly one more.
C14_PeersWithinOneSubstep ==
    (loop.pc # "none" /\ loop.program = "multi-body" /\ DOMAIN loop.reading # {}) =>
        \A peer \in 1..Len(loop.circles) \ {loop.reading.body} :
            loop.reading.steps[peer] \in
                {loop.reading.steps[loop.reading.body],
                 loop.reading.steps[loop.reading.body] + 1}

---------------------------------------------------------------------------
(* Claims about the trails, checked under SpecTrail *)

LeastOf(a, b) == IF a < b THEN a ELSE b

\* C16: after n calls of update(dt) on its body a trail of any kind holds
\* exactly min(n, max_length) points, they are the body's states after the
\* most recent updates, oldest first, and the body is, after the call, what
\* the trail was given to record.
C16_TrailHoldsRecentStates ==
    \A t \in DOMAIN trails :
        LET self == trails[t]
            n == Len(history)
            kept == LeastOf(n, self.max_length)
        IN  /\ Len(self.trail_points) = kept
            /\ \A k \in 1..kept :
                   self.trail_points[k] = trail_point(self.kind, history[n - kept + k])
            /\ \A k \in 1..Len(trace) :
                   trace[k].kind = "listener" =>
                       trace[k].seen = Seen(bodies[self.circle])

====
